---- MODULE Spec2Model ----
(***************************************************************************)
(* auto-archiver: the Google Drive storage backend (storages/gd_storage.py)*)
(* and the archiver pipelines (archivers/tiktok_archiver.py,               *)
(* archivers/youtubedl_archiver.py).                                       *)
(*                                                                         *)
(* Strings of the program are sequences of tokens: <<"a", "/", "f">> is    *)
(* the string a/f.  The separator "/" and the "_" of the cache key are     *)
(* tokens of their own, so joining, splitting and formatting are computed  *)
(* as the code computes them.                                              *)
(***************************************************************************)
EXTENDS Integers, Sequences, FiniteSets, TLC

VARIABLES
    folder,      \* GDStorage.folder, the per-run prefix
    api_cache,   \* GDStorage.api_cache: cache key -> id
    remote,      \* the Drive store: entries in listing order
    last,        \* the storage operation that ran last, with what it returned
    uploaded,    \* keys whose upload returned since the prefix was last set
    nset,        \* how many times the prefix was set
    orphans,     \* whether the service serves a create request whose parent is None
    served,      \* key -> the URL get_cdn_url first returned since the prefix was set
    dl,          \* the running download: archiver, arguments, position and locals
    scratch,     \* whether the local scratch file is on disk
    downloaded,  \* whether the media was downloaded to the scratch file
    trace,       \* the collaborator calls of the download, in order, with their outcome
    result,      \* what download returned
    cc           \* operations in flight on one GDStorage: the frame of each thread

gdvars == <<folder, api_cache, remote, last, uploaded, nset, orphans, served>>
dlvars == <<dl, scratch, downloaded, trace, result>>
ccvars == <<cc>>

---------------------------------------------------------------------------
(* Bounds of the model *)

\* the Drive store holds at most this many entries
MaxRemote == 4

\* the prefix is set at most this many times in a run
MaxSetFolder == 1

\* the extractor reports at most this many entries for a page
MaxEntries == 2

\* a direct lookup is asked for at most this many attempts
MaxRetries == 3

\* a thread runs at most this many storage operations
MaxOps == 2

---------------------------------------------------------------------------
(* Python values and string operations *)

\* Python's None, where the code holds an id or None
None == <<>>

\* str(x) in an f-string: None is rendered as the text None
PyStr(v) == IF v = None THEN <<"None">> ELSE v

\* str(b) of a bool in an f-string
PyStrBool(b) == IF b THEN <<"True">> ELSE <<"False">>

\* os.path.sep
Sep == "/"

\* s.startswith(t) and s.endswith(t) for a one-token t
StartsWith(s, t) == Len(s) > 0 /\ s[1] = t
EndsWith(s, t) == Len(s) > 0 /\ s[Len(s)] = t

\* os.path.join(a, b) (posixpath): an absolute b discards a
PathJoin(a, b) ==
    IF StartsWith(b, Sep) THEN b
    ELSE IF a = <<>> \/ EndsWith(a, Sep) THEN a \o b
    ELSE a \o <<Sep>> \o b

\* s.split(sep): the pieces between the separators, empty pieces kept
RECURSIVE Split(_, _)
Split(s, sep) ==
    IF \A i \in 1..Len(s) : s[i] # sep THEN <<s>>
    ELSE LET i == CHOOSE j \in 1..Len(s) :
                      s[j] = sep /\ \A k \in 1..(j - 1) : s[k] # sep
         IN <<SubSeq(s, 1, i - 1)>> \o Split(SubSeq(s, i + 1, Len(s)), sep)

\* path_parts[0:-1] and path_parts[-1]
Front(parts) == SubSeq(parts, 1, Len(parts) - 1)
Last(parts) == parts[Len(parts)]

---------------------------------------------------------------------------
(* The Drive service *)

\* GDConfig.root_folder_id
RootFolderId == <<"root">>

\* the folder the service places a file in when the request names no parent
MyDrive == <<"mydrive">>

Entry(id, name, parent, isFolder) ==
    [id |-> id, name |-> name, parent |-> parent, folder |-> isFolder]

\* the id the service gives its next entry: ids are fresh, and one token each
\* (no issued id holds the "_" that separates the parts of a cache key)
NewId(rem) == <<ToString(Len(rem) + 1)>>

\* files().list(q = "'<parent>' in parents and name = '<name>' [and mimeType=folder]")
ListFiles(rem, parent_id, name, use_mime_type) ==
    SelectSeq(rem, LAMBDA e : /\ e.parent = PyStr(parent_id)
                              /\ e.name = name
                              /\ (use_mime_type => e.folder))

\* files().create(body = {name, parents, [mimeType]})
Create(rem, name, parent_id, isFolder) ==
    Append(rem, Entry(NewId(rem), name, parent_id, isFolder))

---------------------------------------------------------------------------
(* GDStorage *)

\* defaults of _get_id_from_parent_and_name: retries = 1, sleep_seconds = 10
DefaultRetries == 1
DefaultSleepSeconds == 10

\* the remote calls an operation makes, in order
ListCall(parent_id, name, use_mime_type) ==
    [call |-> "list", parent |-> PyStr(parent_id), name |-> name, folder |-> use_mime_type]
CreateCall(parent_id, name, isFolder) ==
    [call |-> "create", parent |-> PyStr(parent_id), name |-> name, folder |-> isFolder]

\* getattr(self, "api_cache", {}) before the first lookup
EmptyCache == [k \in {} |-> None]

\* self.api_cache[cache_key] = _id
CachePut(cache, k, v) ==
    [x \in (DOMAIN cache) \cup {k} |-> IF x = k THEN v ELSE cache[x]]

\* cache_key = f"{parent_id}_{name}_{use_mime_type}"
CacheKey(parent_id, name, use_mime_type) ==
    PyStr(parent_id) \o <<"_">> \o name \o <<"_">> \o PyStrBool(use_mime_type)

\* SearchLoop without `if raise_on_missing: raise ValueError(...)`: a miss returns None
RECURSIVE SearchLoopNoRaise(_, _, _, _, _, _)
SearchLoopNoRaise(cache, rem, q, attempt, calls, slept) ==
    IF attempt >= q.retries
    THEN [id |-> None, raised |-> FALSE, cache |-> cache, calls |-> calls, slept |-> slept]
    ELSE LET items == ListFiles(rem, q.parent_id, q.name, q.use_mime_type)
             made == Append(calls, ListCall(q.parent_id, q.name, q.use_mime_type))
         IN IF Len(items) > 0
            THEN LET _id == items[Len(items)].id
                 IN [id |-> _id, raised |-> FALSE,
                     cache |-> IF q.use_cache
                               THEN CachePut(cache, CacheKey(q.parent_id, q.name, q.use_mime_type), _id)
                               ELSE cache,
                     calls |-> made, slept |-> slept]
            ELSE SearchLoopNoRaise(cache, rem, q, attempt + 1, made,
                                   IF attempt < q.retries - 1 THEN slept + q.sleep_seconds ELSE slept)

\* SearchLoop with items[0] for items[-1]: the first match is taken
RECURSIVE SearchLoopFirstMatch(_, _, _, _, _, _)
SearchLoopFirstMatch(cache, rem, q, attempt, calls, slept) ==
    IF attempt >= q.retries
    THEN [id |-> None, raised |-> q.raise_on_missing, cache |-> cache,
          calls |-> calls, slept |-> slept]
    ELSE LET items == ListFiles(rem, q.parent_id, q.name, q.use_mime_type)
             made == Append(calls, ListCall(q.parent_id, q.name, q.use_mime_type))
         IN IF Len(items) > 0
            THEN LET _id == items[1].id
                 IN [id |-> _id, raised |-> FALSE,
                     cache |-> IF q.use_cache
                               THEN CachePut(cache, CacheKey(q.parent_id, q.name, q.use_mime_type), _id)
                               ELSE cache,
                     calls |-> made, slept |-> slept]
            ELSE SearchLoopFirstMatch(cache, rem, q, attempt + 1, made,
                                      IF attempt < q.retries - 1 THEN slept + q.sleep_seconds ELSE slept)

\* SearchLoop that remembers a miss: None is cached for a name it did not find
RECURSIVE SearchLoopCachesMiss(_, _, _, _, _, _)
SearchLoopCachesMiss(cache, rem, q, attempt, calls, slept) ==
    IF attempt >= q.retries
    THEN [id |-> None, raised |-> q.raise_on_missing,
          cache |-> IF q.use_cache
                    THEN CachePut(cache, CacheKey(q.parent_id, q.name, q.use_mime_type), None)
                    ELSE cache,
          calls |-> calls, slept |-> slept]
    ELSE LET items == ListFiles(rem, q.parent_id, q.name, q.use_mime_type)
             made == Append(calls, ListCall(q.parent_id, q.name, q.use_mime_type))
         IN IF Len(items) > 0
            THEN LET _id == items[Len(items)].id
                 IN [id |-> _id, raised |-> FALSE,
                     cache |-> IF q.use_cache
                               THEN CachePut(cache, CacheKey(q.parent_id, q.name, q.use_mime_type), _id)
                               ELSE cache,
                     calls |-> made, slept |-> slept]
            ELSE SearchLoopCachesMiss(cache, rem, q, attempt + 1, made,
                                      IF attempt < q.retries - 1 THEN slept + q.sleep_seconds ELSE slept)

\* SearchLoop with a sleep after every miss, the last one too
RECURSIVE SearchLoopSleepsAfterLast(_, _, _, _, _, _)
SearchLoopSleepsAfterLast(cache, rem, q, attempt, calls, slept) ==
    IF attempt >= q.retries
    THEN [id |-> None, raised |-> q.raise_on_missing, cache |-> cache,
          calls |-> calls, slept |-> slept]
    ELSE LET items == ListFiles(rem, q.parent_id, q.name, q.use_mime_type)
             made == Append(calls, ListCall(q.parent_id, q.name, q.use_mime_type))
         IN IF Len(items) > 0
            THEN LET _id == items[Len(items)].id
                 IN [id |-> _id, raised |-> FALSE,
                     cache |-> IF q.use_cache
                               THEN CachePut(cache, CacheKey(q.parent_id, q.name, q.use_mime_type), _id)
                               ELSE cache,
                     calls |-> made, slept |-> slept]
            ELSE SearchLoopSleepsAfterLast(cache, rem, q, attempt + 1, made,
                                           slept + q.sleep_seconds)

\* the loop `for attempt in range(retries)` and what follows it; q holds the
\* arguments of the call
RECURSIVE SearchLoop(_, _, _, _, _, _)
SearchLoop(cache, rem, q, attempt, calls, slept) ==
    IF attempt >= q.retries
    THEN [id |-> None, raised |-> q.raise_on_missing, cache |-> cache,
          calls |-> calls, slept |-> slept]
    ELSE LET items == ListFiles(rem, q.parent_id, q.name, q.use_mime_type)
             made == Append(calls, ListCall(q.parent_id, q.name, q.use_mime_type))
         IN IF Len(items) > 0
            THEN LET _id == items[Len(items)].id
                 IN [id |-> _id, raised |-> FALSE,
                     cache |-> IF q.use_cache
                               THEN CachePut(cache, CacheKey(q.parent_id, q.name, q.use_mime_type), _id)
                               ELSE cache,
                     calls |-> made, slept |-> slept]
            ELSE SearchLoop(cache, rem, q, attempt + 1, made,
                            IF attempt < q.retries - 1 THEN slept + q.sleep_seconds ELSE slept)

\* _get_id_from_parent_and_name without the cache test: every lookup lists
GetIdFromParentAndNameNoCache(cache, rem, parent_id, name, retries, sleep_seconds, use_mime_type, raise_on_missing, use_cache) ==
    SearchLoop(cache, rem,
               [parent_id |-> parent_id, name |-> name, retries |-> retries,
                sleep_seconds |-> sleep_seconds, use_mime_type |-> use_mime_type,
                raise_on_missing |-> raise_on_missing, use_cache |-> use_cache],
               0, <<>>, 0)

\* _get_id_from_parent_and_name: [id, raised, cache, calls, slept]
GetIdFromParentAndName(cache, rem, parent_id, name, retries, sleep_seconds, use_mime_type, raise_on_missing, use_cache) ==
    LET cache_key == CacheKey(parent_id, name, use_mime_type)
    IN IF use_cache /\ cache_key \in DOMAIN cache
       THEN [id |-> cache[cache_key], raised |-> FALSE, cache |-> cache,
             calls |-> <<>>, slept |-> 0]
       ELSE SearchLoop(cache, rem,
                       [parent_id |-> parent_id, name |-> name, retries |-> retries,
                        sleep_seconds |-> sleep_seconds, use_mime_type |-> use_mime_type,
                        raise_on_missing |-> raise_on_missing, use_cache |-> use_cache],
                       0, <<>>, 0)

\* the viewer URL of get_cdn_url
ViewerUrl(file_id) ==
    <<"https://drive.google.com/file/d/">> \o PyStr(file_id) \o <<"/view?usp=sharing">>

\* the loop of get_cdn_url with a create request for a folder it does not find
RECURSIVE ReadFoldersMkdir(_, _, _, _, _)
ReadFoldersMkdir(cache, rem, parent_id, folder_id, folders) ==
    IF folders = <<>>
    THEN [raised |-> FALSE, folder_id |-> folder_id, cache |-> cache, calls |-> <<>>,
          slept |-> 0]
    ELSE LET r == GetIdFromParentAndName(cache, rem, parent_id, Head(folders),
                      DefaultRetries, DefaultSleepSeconds, TRUE, FALSE, TRUE)
         IN IF r.id = None
            THEN [raised |-> TRUE, folder_id |-> None, cache |-> r.cache,
                  calls |-> Append(r.calls, CreateCall(parent_id, Head(folders), TRUE)),
                  slept |-> r.slept]
            ELSE LET rest == ReadFoldersMkdir(r.cache, rem, r.id, r.id, Tail(folders))
                 IN [rest EXCEPT !.calls = r.calls \o @, !.slept = r.slept + @]

\* get_cdn_url, the loop over path_parts[0:-1]: [raised, folder_id, cache, calls, slept]
RECURSIVE ReadFolders(_, _, _, _, _)
ReadFolders(cache, rem, parent_id, folder_id, folders) ==
    IF folders = <<>>
    THEN [raised |-> FALSE, folder_id |-> folder_id, cache |-> cache, calls |-> <<>>,
          slept |-> 0]
    ELSE LET r == GetIdFromParentAndName(cache, rem, parent_id, Head(folders),
                      DefaultRetries, DefaultSleepSeconds, TRUE, TRUE, TRUE)
         IN IF r.raised
            THEN [raised |-> TRUE, folder_id |-> None, cache |-> r.cache, calls |-> r.calls,
                  slept |-> r.slept]
            ELSE LET rest == ReadFolders(r.cache, rem, r.id, r.id, Tail(folders))
                 IN [rest EXCEPT !.calls = r.calls \o @, !.slept = r.slept + @]

\* get_cdn_url(key): [raised, url, cache, calls, slept]
GetCdnUrlOf(fld, cache, rem, key) ==
    LET full_name == PathJoin(fld, key)
        path_parts == Split(full_name, Sep)
        filename == Last(path_parts)
        dirs == ReadFolders(cache, rem, RootFolderId, None, Front(path_parts))
    IN IF dirs.raised
       THEN [raised |-> TRUE, url |-> <<>>, cache |-> dirs.cache, calls |-> dirs.calls,
             slept |-> dirs.slept]
       ELSE LET f == GetIdFromParentAndName(dirs.cache, rem, dirs.folder_id, filename,
                         DefaultRetries, DefaultSleepSeconds, FALSE, TRUE, TRUE)
            IN [raised |-> f.raised,
                url |-> IF f.raised THEN <<>> ELSE ViewerUrl(f.id),
                cache |-> f.cache, calls |-> dirs.calls \o f.calls,
                slept |-> dirs.slept + f.slept]

\* exists(key): get_cdn_url under try/except: [ret, cache, calls, slept]
ExistsOf(fld, cache, rem, key) ==
    LET r == GetCdnUrlOf(fld, cache, rem, key)
    IN [ret |-> ~r.raised, cache |-> r.cache, calls |-> r.calls, slept |-> r.slept]

\* _mkdir(name, parent_id): the new folder's id and the store after it
Mkdir(rem, name, parent_id) ==
    [id |-> NewId(rem), rem |-> Create(rem, name, parent_id, TRUE)]

\* the loop of uploadf with a _mkdir for every segment, found or not
RECURSIVE WriteFoldersAlwaysMkdir(_, _, _, _, _)
WriteFoldersAlwaysMkdir(cache, rem, parent_id, upload_to, folders) ==
    IF folders = <<>>
    THEN [upload_to |-> upload_to, cache |-> cache, rem |-> rem, calls |-> <<>>]
    ELSE LET r == GetIdFromParentAndName(cache, rem, parent_id, Head(folders),
                      DefaultRetries, DefaultSleepSeconds, TRUE, FALSE, TRUE)
             made == Mkdir(rem, Head(folders), parent_id)
             calls == Append(r.calls, CreateCall(parent_id, Head(folders), TRUE))
             rest == WriteFoldersAlwaysMkdir(r.cache, made.rem, made.id, made.id,
                                             Tail(folders))
         IN [rest EXCEPT !.calls = calls \o @]

\* uploadf, the loop over path_parts[0:-1]: [upload_to, cache, rem, calls]
RECURSIVE WriteFolders(_, _, _, _, _)
WriteFolders(cache, rem, parent_id, upload_to, folders) ==
    IF folders = <<>>
    THEN [upload_to |-> upload_to, cache |-> cache, rem |-> rem, calls |-> <<>>]
    ELSE LET r == GetIdFromParentAndName(cache, rem, parent_id, Head(folders),
                      DefaultRetries, DefaultSleepSeconds, TRUE, FALSE, TRUE)
             made == IF r.id = None THEN Mkdir(rem, Head(folders), parent_id)
                     ELSE [id |-> r.id, rem |-> rem]
             calls == IF r.id = None
                      THEN Append(r.calls, CreateCall(parent_id, Head(folders), TRUE))
                      ELSE r.calls
             rest == WriteFolders(r.cache, made.rem, made.id, made.id, Tail(folders))
         IN [rest EXCEPT !.calls = calls \o @]

\* the local files an upload is given; MediaFileUpload raises on one it cannot open
LocalFiles == {<<"tmp", "/", "v.mp4">>, <<"tmp", "/", "gone.mp4">>}
Readable(file) == file = <<"tmp", "/", "v.mp4">>

\* an uploadf that refuses a name its target folder already holds
UploadfOnce(fld, cache, rem, file, key, accepts) ==
    LET path_parts == Split(PathJoin(fld, key), Sep)
        filename == Last(path_parts)
        dirs == WriteFolders(cache, rem, RootFolderId, None, Front(path_parts))
        held == ListFiles(dirs.rem, dirs.upload_to, filename, FALSE) # <<>>
    IN IF ~Readable(file) \/ held \/ dirs.upload_to = None
       THEN [raised |-> TRUE, cache |-> dirs.cache, rem |-> dirs.rem, calls |-> dirs.calls]
       ELSE [raised |-> FALSE, cache |-> dirs.cache,
             rem |-> Create(dirs.rem, filename, dirs.upload_to, FALSE),
             calls |-> Append(dirs.calls, CreateCall(dirs.upload_to, filename, FALSE))]

\* uploadf(file, key): [raised, cache, rem, calls].  A create request whose
\* parent is None is either refused by the service or served without a parent
\* (the file lands in the account's own drive): accepts says which the service
\* does, the same way for every request of a run.
Uploadf(fld, cache, rem, file, key, accepts) ==
    LET full_name == PathJoin(fld, key)
        path_parts == Split(full_name, Sep)
        filename == Last(path_parts)
        dirs == WriteFolders(cache, rem, RootFolderId, None, Front(path_parts))
        call == Append(dirs.calls, CreateCall(dirs.upload_to, filename, FALSE))
    IN IF ~Readable(file)
       THEN [raised |-> TRUE, cache |-> dirs.cache, rem |-> dirs.rem, calls |-> dirs.calls]
       ELSE IF dirs.upload_to = None
       THEN IF accepts
            THEN [raised |-> FALSE, cache |-> dirs.cache,
                  rem |-> Create(dirs.rem, filename, MyDrive, FALSE), calls |-> call]
            ELSE [raised |-> TRUE, cache |-> dirs.cache, rem |-> dirs.rem, calls |-> call]
       ELSE [raised |-> FALSE, cache |-> dirs.cache,
             rem |-> Create(dirs.rem, filename, dirs.upload_to, FALSE), calls |-> call]

---------------------------------------------------------------------------
(* Inputs of the storage operations *)

\* per-run prefixes: none (Config.folder before set_folder) and GDConfig's default
Folders == {<<>>, <<"default">>}

\* keys: a plain file name and a nested key whose folder has that same name
Keys == {<<"a">>, <<"a", "/", "f">>}

\* what the store holds before the run: nothing, the default folder, or that
\* folder twice (Drive allows two folders of one name under one parent)
InitRemotes ==
    { <<>>,
      <<Entry(<<"1">>, <<"default">>, RootFolderId, TRUE)>>,
      <<Entry(<<"1">>, <<"default">>, RootFolderId, TRUE),
        Entry(<<"2">>, <<"default">>, RootFolderId, TRUE)>> }

\* no URL was returned for any key
NoUrls == [k \in Keys |-> <<>>]

NoOp == [op |-> "none", key |-> <<>>, file |-> <<>>, raised |-> FALSE, ret |-> FALSE,
         url |-> <<>>, calls |-> <<>>, slept |-> 0, q |-> <<>>, id |-> None]

\* arguments of a direct call of _get_id_from_parent_and_name
Parents == {RootFolderId, <<"1">>}
Names == {<<"default">>, <<"a">>}
Retries == 1..MaxRetries
Sleeps == {1, DefaultSleepSeconds}

---------------------------------------------------------------------------
(* Storage operations *)

GDInit ==
    /\ folder \in Folders
    /\ api_cache = EmptyCache
    /\ remote \in InitRemotes
    /\ last = NoOp
    /\ uploaded = {}
    /\ nset = 0
    /\ orphans \in BOOLEAN
    /\ served = NoUrls

\* GDStorage.upload(filename, key)
Upload(file, key) ==
    \E r \in {Uploadf(folder, api_cache, remote, file, key, orphans)} :
       /\ Len(r.rem) <= MaxRemote
       /\ api_cache' = r.cache
       /\ remote' = r.rem
       /\ last' = [NoOp EXCEPT !.op = "upload", !.key = key, !.file = file,
                               !.raised = r.raised, !.calls = r.calls]
       /\ uploaded' = IF r.raised THEN uploaded ELSE uploaded \cup {key}
       /\ UNCHANGED <<folder, nset, orphans, served>>
       /\ UNCHANGED <<dlvars, ccvars>>

\* GDStorage.exists(key)
Exists(key) ==
    \E r \in {ExistsOf(folder, api_cache, remote, key)} :
       /\ api_cache' = r.cache
       /\ last' = [NoOp EXCEPT !.op = "exists", !.key = key, !.ret = r.ret,
                               !.calls = r.calls, !.slept = r.slept]
       /\ UNCHANGED <<folder, remote, uploaded, nset, orphans, served>>
       /\ UNCHANGED <<dlvars, ccvars>>

\* GDStorage.get_cdn_url(key)
GetCdnUrl(key) ==
    \E r \in {GetCdnUrlOf(folder, api_cache, remote, key)} :
       /\ api_cache' = r.cache
       /\ last' = [NoOp EXCEPT !.op = "get_cdn_url", !.key = key, !.raised = r.raised,
                               !.url = r.url, !.calls = r.calls, !.slept = r.slept]
       /\ served' = IF ~r.raised /\ served[key] = <<>>
                    THEN [served EXCEPT ![key] = r.url] ELSE served
       /\ UNCHANGED <<folder, remote, uploaded, nset, orphans>>
       /\ UNCHANGED <<dlvars, ccvars>>

\* a direct call of _get_id_from_parent_and_name with every argument given
Lookup(parent_id, name, retries, sleep_seconds, use_mime_type, raise_on_missing, use_cache) ==
    \E r \in {GetIdFromParentAndName(api_cache, remote, parent_id, name, retries,
                                      sleep_seconds, use_mime_type, raise_on_missing, use_cache)} :
       /\ api_cache' = r.cache
       /\ last' = [NoOp EXCEPT !.op = "lookup", !.raised = r.raised, !.calls = r.calls,
                               !.slept = r.slept, !.id = r.id,
                               !.q = [parent_id |-> parent_id, name |-> name,
                                      retries |-> retries, sleep_seconds |-> sleep_seconds,
                                      use_mime_type |-> use_mime_type,
                                      raise_on_missing |-> raise_on_missing,
                                      use_cache |-> use_cache]]
       /\ UNCHANGED <<folder, remote, uploaded, nset, orphans, served>>
       /\ UNCHANGED <<dlvars, ccvars>>

\* Config.set_folder(folder), as far as it reaches the GDStorage instance
SetFolder(f) ==
    /\ f # folder
    /\ nset < MaxSetFolder
    /\ nset' = nset + 1
    /\ folder' = f
    /\ uploaded' = {}
    /\ served' = NoUrls
    /\ last' = [NoOp EXCEPT !.op = "set_folder"]
    /\ UNCHANGED <<api_cache, remote, orphans>>
    /\ UNCHANGED <<dlvars, ccvars>>

GDNext ==
    \/ \E file \in LocalFiles, key \in Keys : Upload(file, key)
    \/ \E key \in Keys : Exists(key)
    \/ \E key \in Keys : GetCdnUrl(key)
    \/ \E f \in Folders : SetFolder(f)

---------------------------------------------------------------------------
(* Archivers: what download returns *)

\* ArchiveResult(...): the fields a call leaves out are None
ArchiveResult(status, cdn_url, thumbnail, thumbnail_index) ==
    [kind |-> "result", status |-> status, cdn_url |-> cdn_url,
     thumbnail |-> thumbnail, thumbnail_index |-> thumbnail_index]

\* return False
NotApplicable ==
    [kind |-> "not_applicable", status |-> "None", cdn_url |-> "None",
     thumbnail |-> "None", thumbnail_index |-> "None"]

\* an exception that leaves download
Raised ==
    [kind |-> "raised", status |-> "None", cdn_url |-> "None",
     thumbnail |-> "None", thumbnail_index |-> "None"]

\* download has not returned
Pending ==
    [kind |-> "pending", status |-> "None", cdn_url |-> "None",
     thumbnail |-> "None", thumbnail_index |-> "None"]

---------------------------------------------------------------------------
(* Archivers: inputs *)

Urls ==
    { <<"https://", "www.", "tiktok.com", "/@u/video/1">>,
      <<"https://", "twitter.com", "/u/status/1">>,
      <<"https://", "www.", "youtube.com", "/watch?v=1">> }

\* t in s, for a token t
Contains(s, t) == \E i \in 1..Len(s) : s[i] = t

\* Archiver.get_netloc(url): the host part of the URL
Netloc(url) == SubSeq(url, 2, Len(url) - 1)

\* what the extractor reports for a URL: live or not, a page of n entries or a
\* single item, and (for a tweet) whether the video is the tweet's own
Infos ==
    [is_live : BOOLEAN, has_entries : BOOLEAN, n : 0..MaxEntries, native : BOOLEAN]

NoInfo == [is_live |-> FALSE, has_entries |-> FALSE, n |-> 0, native |-> FALSE]

Idle ==
    [arch |-> "none", url |-> <<>>, check_if_exists |-> FALSE, pc |-> "idle",
     status |-> "None", cdn_url |-> "None", key_thumb |-> "None",
     thumb_index |-> "None", info |-> NoInfo]

DLInit ==
    /\ dl = Idle
    /\ scratch = FALSE
    /\ downloaded = FALSE
    /\ trace = <<>>
    /\ result = Pending

Call(name, ok) == <<name, ok>>

\* download returns r
Return(r) ==
    /\ result' = r
    /\ dl' = [dl EXCEPT !.pc = "done"]

\* the position moves to pc, download has not returned
Goto(d, pc) ==
    /\ dl' = [d EXCEPT !.pc = pc]
    /\ UNCHANGED result

\* the collaborator call name ended with outcome out
Log(name, out) == trace' = Append(trace, Call(name, out))

\* NeedsUpload without the test: the media is uploaded whatever the status
NeedsUploadAlways(status) == TRUE

\* if status != 'already archived'
NeedsUpload(status) == status # "already archived"

\* ThumbnailsFailed that also reports the failure as the status of the archive
ThumbnailsFailedFatal(d, diagnostic) ==
    [d EXCEPT !.key_thumb = "", !.thumb_index = diagnostic, !.status = diagnostic]

\* the except branch of the thumbnail step: empty key, a diagnostic as index
ThumbnailsFailed(d, diagnostic) ==
    [d EXCEPT !.key_thumb = "", !.thumb_index = diagnostic]

\* key_thumb, thumb_index = self.get_thumbnails(filename, key, duration=...)
ThumbnailsMade(d) ==
    [d EXCEPT !.key_thumb = "thumb_key", !.thumb_index = "index_key"]

---------------------------------------------------------------------------
(* TiktokArchiver.download *)

\* HandlesUrl without the test: every URL is taken for a TikTok URL
HandlesAnyUrl(url) == TRUE

\* 'tiktok.com' in url
HandlesUrl(url) == Contains(url, "tiktok.com")

\* the except clauses of download: InvalidUrl, then everything else
TTExcept(exc) ==
    IF exc = "InvalidUrl"
    THEN ArchiveResult("Invalid URL", "None", "None", "None")
    ELSE ArchiveResult("Other Tiktok error", "None", "None", "None")

\* download(url, check_if_exists) up to status = 'success'
TTBegin(url, check_if_exists) ==
    /\ dl.pc = "idle"
    /\ UNCHANGED <<gdvars, ccvars>>
    /\ LET d == [Idle EXCEPT !.arch = "tiktok", !.url = url,
                             !.check_if_exists = check_if_exists]
       IN IF ~HandlesUrl(url)
          THEN result' = NotApplicable /\ dl' = [d EXCEPT !.pc = "done"]
          ELSE Goto([d EXCEPT !.status = "success"], "tt_info")
    /\ UNCHANGED <<scratch, downloaded, trace>>

\* info = tiktok_downloader.info_post(url); key; filename
TTInfoPost(out) ==
    /\ dl.pc = "tt_info"
    /\ UNCHANGED <<gdvars, ccvars>>
    /\ Log("info_post", out)
    /\ IF out = "ok"
       THEN Goto(dl, IF dl.check_if_exists THEN "tt_exists" ELSE "tt_media")
       ELSE Return(TTExcept(out))
    /\ UNCHANGED <<scratch, downloaded>>

\* if check_if_exists and self.storage.exists(key): status = 'already archived'
TTExists(out) ==
    /\ dl.pc = "tt_exists"
    /\ UNCHANGED <<gdvars, ccvars>>
    /\ Log("exists", out)
    /\ IF out = "true" THEN Goto([dl EXCEPT !.status = "already archived"], "tt_media")
       ELSE IF out = "false" THEN Goto(dl, "tt_media")
       ELSE Return(TTExcept(out))
    /\ UNCHANGED <<scratch, downloaded>>

\* media = tiktok_downloader.snaptik(url).get_media(); if len(media) <= 0: ...
TTGetMedia(out) ==
    /\ dl.pc = "tt_media"
    /\ UNCHANGED <<gdvars, ccvars>>
    /\ Log("get_media", out)
    /\ IF out = "ok" THEN Goto(dl, "tt_download")
       ELSE IF out = "empty"
       THEN IF dl.status = "already archived"
            THEN Goto(dl, "tt_cdn_nomedia")
            ELSE Return(ArchiveResult("Could not download media", "None", "None", "None"))
       ELSE Return(TTExcept(out))
    /\ UNCHANGED <<scratch, downloaded>>

\* return ArchiveResult(status='Could not download media, but already archived',
\*                      cdn_url=self.storage.get_cdn_url(key))
TTCdnNoMedia(out) ==
    /\ dl.pc = "tt_cdn_nomedia"
    /\ UNCHANGED <<gdvars, ccvars>>
    /\ Log("get_cdn_url", out)
    /\ IF out = "ok"
       THEN Return(ArchiveResult("Could not download media, but already archived",
                                 "url", "None", "None"))
       ELSE Return(TTExcept(out))
    /\ UNCHANGED <<scratch, downloaded>>

\* media[0].download(filename)
TTMediaDownload(out) ==
    /\ dl.pc = "tt_download"
    /\ UNCHANGED <<gdvars, ccvars>>
    /\ Log("download", out)
    /\ IF out = "ok"
       THEN /\ scratch' = TRUE
            /\ downloaded' = TRUE
            /\ Goto(dl, IF NeedsUpload(dl.status) THEN "tt_upload" ELSE "tt_thumbs")
       ELSE /\ Return(TTExcept(out))
            /\ UNCHANGED <<scratch, downloaded>>

\* self.storage.upload(filename, key)
TTUpload(out) ==
    /\ dl.pc = "tt_upload"
    /\ UNCHANGED <<gdvars, ccvars>>
    /\ Log("upload", out)
    /\ IF out = "ok" THEN Goto(dl, "tt_thumbs") ELSE Return(TTExcept(out))
    /\ UNCHANGED <<scratch, downloaded>>

\* a thumbnail step that is followed by the cleanup at once
TTThumbnailsThenRemove(out) ==
    /\ dl.pc = "tt_thumbs"
    /\ UNCHANGED <<gdvars, ccvars>>
    /\ Log("get_thumbnails", out)
    /\ IF out = "ok" THEN Goto(ThumbnailsMade(dl), "tt_remove")
       ELSE Goto(ThumbnailsFailed(dl, "error creating thumbnails"), "tt_remove")
    /\ UNCHANGED <<scratch, downloaded>>

\* try: key_thumb, thumb_index = self.get_thumbnails(...) except Exception: ...
TTThumbnails(out) ==
    /\ dl.pc = "tt_thumbs"
    /\ UNCHANGED <<gdvars, ccvars>>
    /\ Log("get_thumbnails", out)
    /\ IF out = "ok" THEN Goto(ThumbnailsMade(dl), "tt_hash")
       ELSE Goto(ThumbnailsFailed(dl, "error creating thumbnails"), "tt_hash")
    /\ UNCHANGED <<scratch, downloaded>>

\* hash = self.get_hash(filename)
TTHash(out) ==
    /\ dl.pc = "tt_hash"
    /\ UNCHANGED <<gdvars, ccvars>>
    /\ Log("get_hash", out)
    /\ IF out = "ok" THEN Goto(dl, "tt_screenshot") ELSE Return(TTExcept(out))
    /\ UNCHANGED <<scratch, downloaded>>

\* screenshot = self.get_screenshot(url)
TTScreenshot(out) ==
    /\ dl.pc = "tt_screenshot"
    /\ UNCHANGED <<gdvars, ccvars>>
    /\ Log("get_screenshot", out)
    /\ IF out = "ok" THEN Goto(dl, "tt_remove") ELSE Return(TTExcept(out))
    /\ UNCHANGED <<scratch, downloaded>>

\* try: os.remove(filename) except FileNotFoundError: ...
TTRemove(out) ==
    /\ dl.pc = "tt_remove"
    /\ UNCHANGED <<gdvars, ccvars>>
    /\ IF ~scratch
       THEN Log("remove", "FileNotFoundError") /\ Goto(dl, "tt_cdn") /\ UNCHANGED scratch
       ELSE /\ Log("remove", out)
            /\ IF out = "ok" THEN scratch' = FALSE /\ Goto(dl, "tt_cdn")
               ELSE Return(TTExcept(out)) /\ UNCHANGED scratch
    /\ UNCHANGED downloaded

\* cdn_url = self.storage.get_cdn_url(key); ...; return ArchiveResult(status=status, ...)
TTGetCdnUrl(out) ==
    /\ dl.pc = "tt_cdn"
    /\ UNCHANGED <<gdvars, ccvars>>
    /\ Log("get_cdn_url", out)
    /\ IF out = "ok"
       THEN Return(ArchiveResult(dl.status, "url", dl.key_thumb, dl.thumb_index))
       ELSE Return(TTExcept(out))
    /\ UNCHANGED <<scratch, downloaded>>

\* how a call of the tiktok_downloader package ends
TiktokOutcomes == {"ok", "InvalidUrl", "error"}

\* how any other collaborator call ends
Outcomes == {"ok", "error"}

TTNext ==
    \/ \E url \in Urls, c \in BOOLEAN : TTBegin(url, c)
    \/ \E out \in TiktokOutcomes : TTInfoPost(out)
    \/ \E out \in {"true", "false", "error"} : TTExists(out)
    \/ \E out \in TiktokOutcomes \cup {"empty"} : TTGetMedia(out)
    \/ \E out \in Outcomes : TTCdnNoMedia(out)
    \/ \E out \in TiktokOutcomes : TTMediaDownload(out)
    \/ \E out \in Outcomes : TTUpload(out)
    \/ \E out \in Outcomes : TTThumbnails(out)
    \/ \E out \in Outcomes : TTHash(out)
    \/ \E out \in Outcomes : TTScreenshot(out)
    \/ \E out \in Outcomes : TTRemove(out)
    \/ \E out \in Outcomes : TTGetCdnUrl(out)

---------------------------------------------------------------------------
(* YoutubeDLArchiver.download *)

\* IsLive without the test: live content is archived like any other
IsLiveNever(info) == FALSE

\* if info.get('is_live', False)
IsLive(info) == info.is_live

\* download(url, check_if_exists) up to status = 'success' (the Facebook
\* cookie only sets a request header of the extractor)
YTBegin(url, check_if_exists) ==
    /\ dl.pc = "idle"
    /\ UNCHANGED <<gdvars, ccvars>>
    /\ Goto([Idle EXCEPT !.arch = "youtube_dl", !.url = url,
                         !.check_if_exists = check_if_exists,
                         !.status = "success"], "yt_extract")
    /\ UNCHANGED <<scratch, downloaded, trace>>

\* try: info = ydl.extract_info(url, download=False) except ...: return False
YTExtractInfo(out, info) ==
    /\ dl.pc = "yt_extract"
    /\ UNCHANGED <<gdvars, ccvars>>
    /\ Log("extract_info", out)
    /\ IF out = "ok" THEN Goto([dl EXCEPT !.info = info], "yt_classify")
       ELSE Return(NotApplicable)
    /\ UNCHANGED <<scratch, downloaded>>

\* the is_live test and the twitter.com test on the extracted info
YTClassify ==
    /\ dl.pc = "yt_classify"
    /\ UNCHANGED <<gdvars, ccvars>>
    /\ IF IsLive(dl.info)
       THEN Return(ArchiveResult("Streaming media", "None", "None", "None"))
       ELSE IF Contains(Netloc(dl.url), "twitter.com") /\ ~dl.info.native
       THEN Return(NotApplicable)
       ELSE Goto(dl, IF dl.check_if_exists THEN "yt_precheck" ELSE "yt_download")
    /\ UNCHANGED <<scratch, downloaded, trace>>

\* if check_if_exists: the tests on info['entries'], then filename and key
YTPrecheck ==
    /\ dl.pc = "yt_precheck"
    /\ UNCHANGED <<gdvars, ccvars>>
    /\ IF dl.info.has_entries /\ dl.info.n > 1 THEN Return(NotApplicable)
       ELSE IF dl.info.has_entries /\ dl.info.n = 0 THEN Return(NotApplicable)
       ELSE Goto(dl, "yt_exists")
    /\ UNCHANGED <<scratch, downloaded, trace>>

\* if self.storage.exists(key): status = 'already archived'
YTExists(out) ==
    /\ dl.pc = "yt_exists"
    /\ UNCHANGED <<gdvars, ccvars>>
    /\ Log("exists", out)
    /\ IF out = "true" THEN Goto([dl EXCEPT !.status = "already archived"], "yt_cdn_existing")
       ELSE IF out = "false" THEN Goto(dl, "yt_download")
       ELSE Return(Raised)
    /\ UNCHANGED <<scratch, downloaded>>

\* cdn_url = self.storage.get_cdn_url(key), for a key that exists
YTCdnExisting(out) ==
    /\ dl.pc = "yt_cdn_existing"
    /\ UNCHANGED <<gdvars, ccvars>>
    /\ Log("get_cdn_url", out)
    /\ IF out = "ok" THEN Goto([dl EXCEPT !.cdn_url = "url"], "yt_download")
       ELSE Return(Raised)
    /\ UNCHANGED <<scratch, downloaded>>

\* info = ydl.extract_info(url, download=True), the test on info['entries'],
\* filename.  A page of several entries is downloaded whole; info['entries'][0]
\* of a page without entries raises IndexError.
YTDownload(out) ==
    /\ dl.pc = "yt_download"
    /\ UNCHANGED <<gdvars, ccvars>>
    /\ Log("extract_info_download", out)
    /\ IF out # "ok" THEN Return(Raised) /\ UNCHANGED <<scratch, downloaded>>
       ELSE IF dl.info.has_entries /\ dl.info.n > 1
       THEN scratch' = TRUE /\ downloaded' = TRUE /\ Return(NotApplicable)
       ELSE IF dl.info.has_entries /\ dl.info.n = 0
       THEN Return(Raised) /\ UNCHANGED <<scratch, downloaded>>
       ELSE /\ scratch' = TRUE
            /\ downloaded' = TRUE
            /\ Goto(dl, IF NeedsUpload(dl.status) THEN "yt_upload" ELSE "yt_hash")

\* key = self.get_key(filename); self.storage.upload(filename, key)
YTUpload(out) ==
    /\ dl.pc = "yt_upload"
    /\ UNCHANGED <<gdvars, ccvars>>
    /\ Log("upload", out)
    /\ IF out = "ok" THEN Goto(dl, "yt_cdn") ELSE Return(Raised)
    /\ UNCHANGED <<scratch, downloaded>>

\* cdn_url = self.storage.get_cdn_url(key), after the upload
YTGetCdnUrl(out) ==
    /\ dl.pc = "yt_cdn"
    /\ UNCHANGED <<gdvars, ccvars>>
    /\ Log("get_cdn_url", out)
    /\ IF out = "ok" THEN Goto([dl EXCEPT !.cdn_url = "url"], "yt_hash")
       ELSE Return(Raised)
    /\ UNCHANGED <<scratch, downloaded>>

\* hash = self.get_hash(filename)
YTHash(out) ==
    /\ dl.pc = "yt_hash"
    /\ UNCHANGED <<gdvars, ccvars>>
    /\ Log("get_hash", out)
    /\ IF out = "ok" THEN Goto(dl, "yt_screenshot") ELSE Return(Raised)
    /\ UNCHANGED <<scratch, downloaded>>

\* screenshot = self.get_screenshot(url)
YTScreenshot(out) ==
    /\ dl.pc = "yt_screenshot"
    /\ UNCHANGED <<gdvars, ccvars>>
    /\ Log("get_screenshot", out)
    /\ IF out = "ok" THEN Goto(dl, "yt_thumbs") ELSE Return(Raised)
    /\ UNCHANGED <<scratch, downloaded>>

\* try: key_thumb, thumb_index = self.get_thumbnails(...) except: ...
YTThumbnails(out) ==
    /\ dl.pc = "yt_thumbs"
    /\ UNCHANGED <<gdvars, ccvars>>
    /\ Log("get_thumbnails", out)
    /\ IF out = "ok" THEN Goto(ThumbnailsMade(dl), "yt_remove")
       ELSE Goto(ThumbnailsFailed(dl, "Could not generate thumbnails"), "yt_remove")
    /\ UNCHANGED <<scratch, downloaded>>

\* os.remove(filename)
YTRemove(out) ==
    /\ dl.pc = "yt_remove"
    /\ UNCHANGED <<gdvars, ccvars>>
    /\ IF ~scratch
       THEN Log("remove", "FileNotFoundError") /\ Return(Raised) /\ UNCHANGED scratch
       ELSE /\ Log("remove", out)
            /\ IF out = "ok" THEN scratch' = FALSE /\ Goto(dl, "yt_return")
               ELSE Return(Raised) /\ UNCHANGED scratch
    /\ UNCHANGED downloaded

\* timestamp; return ArchiveResult(status=status, cdn_url=cdn_url, ...)
YTReturn ==
    /\ dl.pc = "yt_return"
    /\ UNCHANGED <<gdvars, ccvars>>
    /\ Return(ArchiveResult(dl.status, dl.cdn_url, dl.key_thumb, dl.thumb_index))
    /\ UNCHANGED <<scratch, downloaded, trace>>

\* how ydl.extract_info ends: with the info, with a DownloadError (no media at
\* the URL, or a URL that is no valid URL), or with another exception
ExtractOutcomes == {"ok", "NoMedia", "InvalidUrl", "error"}

YTNext ==
    \/ \E url \in Urls, c \in BOOLEAN : YTBegin(url, c)
    \/ \E out \in ExtractOutcomes, info \in Infos : YTExtractInfo(out, info)
    \/ YTClassify
    \/ YTPrecheck
    \/ \E out \in {"true", "false", "error"} : YTExists(out)
    \/ \E out \in Outcomes : YTCdnExisting(out)
    \/ \E out \in ExtractOutcomes \ {"InvalidUrl"} : YTDownload(out)
    \/ \E out \in Outcomes : YTUpload(out)
    \/ \E out \in Outcomes : YTGetCdnUrl(out)
    \/ \E out \in Outcomes : YTHash(out)
    \/ \E out \in Outcomes : YTScreenshot(out)
    \/ \E out \in Outcomes : YTThumbnails(out)
    \/ \E out \in Outcomes : YTRemove(out)
    \/ YTReturn

---------------------------------------------------------------------------
(* GDStorage used by several threads at once.  An operation runs as in the
   source, statement by statement; a step is one access to the instance's
   attributes or one call of the service, together with the local statements
   that follow it.  Python runs one thread at a time and may switch threads
   between any two such accesses. *)

Threads == {"t1", "t2"}

\* a thread with no operation in flight
NoFrame ==
    [pc |-> "idle", op |-> "none", segs |-> <<>>, filename |-> <<>>,
     parent_id |-> RootFolderId, cur |-> None, stage |-> "none",
     at |-> None, name |-> <<>>, mime |-> FALSE,
     id |-> None, seen |-> 0, out |-> "none", ops |-> 0]

\* no thread runs and the instance has no api_cache attribute yet; made lists
\* the folders that were created: the position in the store, the thread that
\* did it and the number of entries the store had when that thread listed
Quiet == [set |-> FALSE, made |-> {}, t |-> [x \in Threads |-> NoFrame]]

\* the operation of frame f returns (out = "ok") or raises
Finished(f, out) == [NoFrame EXCEPT !.out = out, !.ops = f.ops + 1]

\* what follows in uploadf and get_cdn_url once parent_id is settled: the
\* lookup of the next folder, then the file's creation or the file's lookup
Continue(f) ==
    IF f.segs # <<>>
    THEN [f EXCEPT !.pc = "getattr", !.stage = "folder", !.at = f.parent_id,
                   !.name = Head(f.segs), !.mime = TRUE, !.segs = Tail(f.segs)]
    ELSE IF f.op = "upload"
    THEN [f EXCEPT !.pc = "create_file"]
    ELSE [f EXCEPT !.pc = "getattr", !.stage = "file", !.at = f.cur,
                   !.name = f.filename, !.mime = FALSE]

\* the lookup returned id to its caller
Got(f, id) ==
    IF f.stage = "file" THEN Finished(f, "ok")
    ELSE Continue([f EXCEPT !.parent_id = id, !.cur = id])

\* after a listing, the upload creates a folder whatever the listing held
AfterListAlwaysMkdir(f, items, n) ==
    IF f.op = "upload" THEN [f EXCEPT !.pc = "mkdir", !.seen = n]
    ELSE IF items # <<>> THEN [f EXCEPT !.pc = "store", !.id = items[Len(items)].id]
    ELSE Finished(f, "raised")

\* what follows the listing: the last match is to be cached; with no match
\* the read path raises and the upload goes on to _mkdir.  n is the number
\* of entries the store had at the listing
AfterList(f, items, n) ==
    IF items # <<>> THEN [f EXCEPT !.pc = "store", !.id = items[Len(items)].id]
    ELSE IF f.op = "upload" THEN [f EXCEPT !.pc = "mkdir", !.seen = n]
    ELSE Finished(f, "raised")

\* the thread t moves to frame f
Move(t, f) == cc' = [cc EXCEPT !.t[t] = f]

\* `if cache_key in self.api_cache: return self.api_cache[cache_key]`
Check(f) ==
    LET k == CacheKey(f.at, f.name, f.mime)
    IN IF k \in DOMAIN api_cache THEN Got(f, api_cache[k]) ELSE [f EXCEPT !.pc = "list"]

\* a thread starts upload(file, key) or get_cdn_url(key)
CCBegin(t, op, key) ==
    /\ cc.t[t].pc = "idle"
    /\ cc.t[t].ops < MaxOps
    /\ LET path_parts == Split(PathJoin(folder, key), Sep)
       IN Move(t, Continue([NoFrame EXCEPT !.op = op, !.ops = cc.t[t].ops,
                                           !.segs = Front(path_parts),
                                           !.filename = Last(path_parts)]))
    /\ UNCHANGED <<gdvars, dlvars>>

\* getattr(self, "api_cache", {}): the attribute or, when there is none, a new
\* dict.  With the attribute set the assignment that follows stores the same
\* dict again, and the thread is at the cache test.
CCGetattr(t) ==
    /\ cc.t[t].pc = "getattr"
    /\ IF cc.set THEN Move(t, Check(cc.t[t]))
       ELSE Move(t, [cc.t[t] EXCEPT !.pc = "setattr"])
    /\ UNCHANGED <<gdvars, dlvars>>

\* self.api_cache = <the new dict>
CCSetattr(t) ==
    /\ cc.t[t].pc = "setattr"
    /\ api_cache' = EmptyCache
    /\ cc' = [cc EXCEPT !.set = TRUE, !.t[t] = [cc.t[t] EXCEPT !.pc = "check"]]
    /\ UNCHANGED <<folder, remote, last, uploaded, nset, orphans, served>>
    /\ UNCHANGED dlvars

\* the cache test of the thread that has set the attribute
CCCheck(t) ==
    /\ cc.t[t].pc = "check"
    /\ Move(t, Check(cc.t[t]))
    /\ UNCHANGED <<gdvars, dlvars>>

\* results = self.service.files().list(...).execute(), one attempt
CCList(t) ==
    /\ cc.t[t].pc = "list"
    /\ Move(t, AfterList(cc.t[t], ListFiles(remote, cc.t[t].at, cc.t[t].name, cc.t[t].mime),
                         Len(remote)))
    /\ UNCHANGED <<gdvars, dlvars>>

\* self.api_cache[cache_key] = _id; return _id
CCStore(t) ==
    /\ cc.t[t].pc = "store"
    /\ api_cache' = CachePut(api_cache, CacheKey(cc.t[t].at, cc.t[t].name, cc.t[t].mime),
                             cc.t[t].id)
    /\ Move(t, Got([cc.t[t] EXCEPT !.id = None], cc.t[t].id))
    /\ UNCHANGED <<folder, remote, last, uploaded, nset, orphans, served>>
    /\ UNCHANGED dlvars

\* upload_to = self._mkdir(folder, parent_id)
CCMkdir(t) ==
    /\ cc.t[t].pc = "mkdir"
    /\ Len(remote) < MaxRemote
    /\ LET made == Mkdir(remote, cc.t[t].name, cc.t[t].at)
       IN /\ remote' = made.rem
          /\ cc' = [cc EXCEPT !.made = @ \cup {[at |-> Len(made.rem), by |-> t,
                                                seen |-> cc.t[t].seen]},
                              !.t[t] = Got([cc.t[t] EXCEPT !.seen = 0], made.id)]
    /\ UNCHANGED <<folder, api_cache, last, uploaded, nset, orphans, served>>
    /\ UNCHANGED dlvars

\* self.service.files().create(body=file_metadata, media_body=media, ...)
CCCreateFile(t) ==
    /\ cc.t[t].pc = "create_file"
    /\ Len(remote) < MaxRemote
    /\ IF cc.t[t].cur = None /\ ~orphans
       THEN remote' = remote /\ Move(t, Finished(cc.t[t], "raised"))
       ELSE /\ remote' = Create(remote, cc.t[t].filename,
                                IF cc.t[t].cur = None THEN MyDrive ELSE cc.t[t].cur, FALSE)
            /\ Move(t, Finished(cc.t[t], "ok"))
    /\ UNCHANGED <<folder, api_cache, last, uploaded, nset, orphans, served>>
    /\ UNCHANGED dlvars

CCOps == {"upload", "get_cdn_url"}

CCNext ==
    \E t \in Threads :
        \/ \E op \in CCOps, key \in Keys : CCBegin(t, op, key)
        \/ CCGetattr(t)
        \/ CCSetattr(t)
        \/ CCCheck(t)
        \/ CCList(t)
        \/ CCStore(t)
        \/ CCMkdir(t)
        \/ CCCreateFile(t)

vars == <<gdvars, dlvars, ccvars>>

Init == GDInit /\ DLInit /\ cc = Quiet

Next == GDNext

Spec == Init /\ [][Next]_vars

InitDL ==
    /\ folder = <<"default">>
    /\ api_cache = EmptyCache
    /\ remote = <<>>
    /\ last = NoOp
    /\ uploaded = {}
    /\ nset = 0
    /\ orphans = FALSE
    /\ served = NoUrls
    /\ dl = Idle
    /\ scratch = FALSE
    /\ downloaded = FALSE
    /\ trace = <<>>
    /\ result = Pending
    /\ cc = Quiet

DLNext == TTNext \/ YTNext

SpecDL == InitDL /\ [][DLNext]_vars

\* the lookup on its own: the store is given, and the lookup is called with
\* every argument, directly and through the operations of the read path
LookupRemotes ==
    { <<Entry(<<"1">>, <<"default">>, RootFolderId, TRUE)>>,
      <<Entry(<<"1">>, <<"default">>, RootFolderId, TRUE),
        Entry(<<"2">>, <<"a">>, <<"1">>, FALSE),
        Entry(<<"3">>, <<"a">>, <<"1">>, TRUE)>> }

InitLookup ==
    /\ folder = <<"default">>
    /\ api_cache = EmptyCache
    /\ remote \in LookupRemotes
    /\ last = NoOp
    /\ uploaded = {}
    /\ nset = 0
    /\ orphans = FALSE
    /\ served = NoUrls
    /\ dl = Idle
    /\ scratch = FALSE
    /\ downloaded = FALSE
    /\ trace = <<>>
    /\ result = Pending
    /\ cc = Quiet

LookupNext ==
    \/ \E parent_id \in Parents, name \in Names, retries \in Retries, sleep_seconds \in Sleeps,
          use_mime_type \in BOOLEAN, raise_on_missing \in BOOLEAN, use_cache \in BOOLEAN :
          Lookup(parent_id, name, retries, sleep_seconds, use_mime_type, raise_on_missing,
                 use_cache)
    \/ \E key \in Keys : Exists(key)
    \/ \E key \in Keys : GetCdnUrl(key)

SpecLookup == InitLookup /\ [][LookupNext]_vars

\* the lookup on a store whose ids and names hold the character "_": ids are
\* opaque strings of the service (letters, digits, "-" and "_"), names are the
\* caller's.  Folder 1 holds a folder x_y, folder 1_x holds a folder y.
KeyRemote ==
    << Entry(<<"1">>, <<"d">>, RootFolderId, TRUE),
       Entry(<<"1", "_", "x">>, <<"e">>, RootFolderId, TRUE),
       Entry(<<"3">>, <<"x", "_", "y">>, <<"1">>, TRUE),
       Entry(<<"4">>, <<"y">>, <<"1", "_", "x">>, TRUE) >>

KeyParents == {RootFolderId, <<"1">>, <<"1", "_", "x">>}
KeyNames == {<<"d">>, <<"y">>, <<"x", "_", "y">>}

InitKeys ==
    /\ folder = <<"default">>
    /\ api_cache = EmptyCache
    /\ remote = KeyRemote
    /\ last = NoOp
    /\ uploaded = {}
    /\ nset = 0
    /\ orphans = FALSE
    /\ served = NoUrls
    /\ dl = Idle
    /\ scratch = FALSE
    /\ downloaded = FALSE
    /\ trace = <<>>
    /\ result = Pending
    /\ cc = Quiet

KeysNext ==
    \E parent_id \in KeyParents, name \in KeyNames, use_mime_type \in BOOLEAN,
       raise_on_missing \in BOOLEAN, use_cache \in BOOLEAN :
        Lookup(parent_id, name, DefaultRetries, DefaultSleepSeconds, use_mime_type,
               raise_on_missing, use_cache)

SpecKeys == InitKeys /\ [][KeysNext]_vars

\* threads on one instance under the default prefix; the store holds the
\* prefix folder or nothing
InitCC ==
    /\ folder = <<"default">>
    /\ api_cache = EmptyCache
    /\ remote \in {<<>>, <<Entry(<<"1">>, <<"default">>, RootFolderId, TRUE)>>}
    /\ last = NoOp
    /\ uploaded = {}
    /\ nset = 0
    /\ orphans = FALSE
    /\ served = NoUrls
    /\ dl = Idle
    /\ scratch = FALSE
    /\ downloaded = FALSE
    /\ trace = <<>>
    /\ result = Pending
    /\ cc = Quiet

SpecCC == InitCC /\ [][CCNext]_vars

---------------------------------------------------------------------------
(* Properties of GDStorage, checked under Spec *)

\* the entries of the store, as a set
Entries == {remote[i] : i \in 1..Len(remote)}

\* the last segment of a key
FileName(key) == Last(Split(key, Sep))

\* whether the store holds the path parts below parent: a folder for every
\* segment but the last and, for the last, a file (or, with anyKind, any entry)
RECURSIVE Holds(_, _, _)
Holds(parent, parts, anyKind) ==
    IF Len(parts) = 1
    THEN \E e \in Entries :
            e.parent = parent /\ e.name = parts[1] /\ (anyKind \/ ~e.folder)
    ELSE \E e \in Entries :
            /\ e.parent = parent /\ e.name = Head(parts) /\ e.folder
            /\ Holds(e.id, Tail(parts), anyKind)

\* the store holds the file of key k under the current prefix
FilePresent(k) == Holds(RootFolderId, Split(PathJoin(folder, k), Sep), FALSE)

\* every segment of key k under the current prefix names some entry of the store
Resolvable(k) == Holds(RootFolderId, Split(PathJoin(folder, k), Sep), TRUE)

\* C1: once upload(file, k) has returned without error and the prefix is
\* unchanged, exists(k) returns true and get_cdn_url(k) returns the viewer URL
\* of a file named as the last segment of k
C1_UploadedIsFound ==
    /\ (last.op = "exists" /\ last.key \in uploaded) => last.ret
    /\ (last.op = "get_cdn_url" /\ last.key \in uploaded) =>
          /\ ~last.raised
          /\ \E e \in Entries :
                ~e.folder /\ e.name = FileName(last.key) /\ last.url = ViewerUrl(e.id)

\* C2: exists(k) returns false for every key whose file, or one of whose
\* folders, the store does not hold
C2_AbsentIsFalse ==
    (last.op = "exists" /\ ~FilePresent(last.key)) => ~last.ret

\* C3: get_cdn_url(k) returns no URL built from None, and raises whenever a
\* folder segment or the final segment of the prefixed key names nothing in the store
C3_RaisesNotNone ==
    last.op = "get_cdn_url" =>
        /\ last.url # ViewerUrl(None)
        /\ last.raised \/ \E e \in Entries : last.url = ViewerUrl(e.id)
        /\ ~Resolvable(last.key) => last.raised

\* C3, its case: get_cdn_url has raised for a key the store cannot resolve
C3_Witness ==
    last.op = "get_cdn_url" /\ last.raised /\ ~Resolvable(last.key)

---------------------------------------------------------------------------
(* Properties of the archivers, checked under SpecDL *)

Done == dl.pc = "done"

Calls == {trace[i] : i \in 1..Len(trace)}

\* the collaborator was called
Called(name) == \E c \in Calls : c[1] = name

\* outcomes of a collaborator call that are no failure.  A get_media that
\* returns no media is a failure to download ("Could not download media").
Successes == {"ok", "true", "false"}

\* no collaborator call of the download has failed
NoFailure == \A c \in Calls : c[2] \in Successes

\* C4: download never raises: it returns NOT_APPLICABLE or an ArchiveResult
C4_NeverRaises == result.kind # "raised"

\* C5: when download finishes after the media was downloaded to the scratch
\* file, the scratch file is deleted
C5_ScratchDeleted == (Done /\ downloaded) => ~scratch

\* C6: with check_if_exists set, exists(key) true and no collaborator failing,
\* upload is never called, and download returns status "already archived" with
\* a cdn_url, the scratch file deleted
C6_AlreadyArchived ==
    (dl.check_if_exists /\ Call("exists", "true") \in Calls /\ NoFailure) =>
        /\ ~Called("upload")
        /\ Done => /\ result.kind = "result"
                   /\ result.status = "already archived"
                   /\ result.cdn_url = "url"
                   /\ downloaded /\ ~scratch

\* C6, its case: such a download has returned
C6_Witness ==
    /\ Done /\ dl.check_if_exists /\ Call("exists", "true") \in Calls /\ NoFailure
    /\ downloaded /\ dl.arch = "tiktok"

\* C7: for a URL without tiktok.com, TiktokArchiver.download returns
\* NOT_APPLICABLE and calls no collaborator: no extraction, no storage
C7_NotHandled ==
    (dl.arch = "tiktok" /\ ~Contains(dl.url, "tiktok.com")) =>
        Done /\ result = NotApplicable /\ trace = <<>>

\* C7, its case: TiktokArchiver.download has returned for a twitter URL
C7_Witness ==
    Done /\ dl.arch = "tiktok" /\ Contains(dl.url, "twitter.com")

\* C8: when the extraction reports live content, YoutubeDLArchiver.download
\* returns ArchiveResult("Streaming media") and calls neither the downloading
\* extraction nor exists, upload or get_cdn_url
C8_LiveNotArchived ==
    (dl.arch = "youtube_dl" /\ dl.info.is_live) =>
        /\ dl.pc \in {"yt_classify", "done"}
        /\ \A name \in {"extract_info_download", "exists", "upload", "get_cdn_url"} :
              ~Called(name)
        /\ ~downloaded
        /\ Done => result = ArchiveResult("Streaming media", "None", "None", "None")

\* C8, its case: download has returned for live content
C8_Witness ==
    Done /\ dl.arch = "youtube_dl" /\ dl.info.is_live

\* the status before the thumbnail step: what the existence probe left
StatusBeforeThumbnails ==
    IF Call("exists", "true") \in Calls THEN "already archived" ELSE "success"

ThumbnailsRaised == Call("get_thumbnails", "error") \in Calls

\* no collaborator call but get_thumbnails has failed
OnlyThumbnailsFailed ==
    \A c \in Calls : c[1] # "get_thumbnails" => c[2] \in Successes

\* C9: when thumbnail generation raises, the thumbnail key is empty, the
\* thumbnail index a diagnostic and the status what it was before the step; and
\* download returns an ArchiveResult that carries them
C9_ThumbnailFailureKept ==
    ThumbnailsRaised =>
        /\ dl.key_thumb = ""
        /\ dl.thumb_index \in {"error creating thumbnails", "Could not generate thumbnails"}
        /\ dl.status = StatusBeforeThumbnails
        /\ (Done /\ OnlyThumbnailsFailed) =>
              result = ArchiveResult(StatusBeforeThumbnails, "url", "", dl.thumb_index)

\* C9, its case: download has returned after a thumbnail failure, the media
\* being archived already
C9_Witness ==
    /\ Done /\ ThumbnailsRaised /\ OnlyThumbnailsFailed
    /\ dl.arch = "youtube_dl" /\ result.status = "already archived"

\* C10: when the extraction reports an invalid URL, download returns an
\* ArchiveResult with an invalid-URL status, and not NOT_APPLICABLE
C10_InvalidUrlIsTerminal ==
    (Done /\ \E c \in Calls : c[2] = "InvalidUrl") =>
        result = ArchiveResult("Invalid URL", "None", "None", "None")

\* C12: in every download that reaches the cleanup, the content hash was
\* computed and the thumbnail generation was attempted strictly before the
\* scratch file is removed; the file is never gone without the cleanup.
C12_HashAndThumbnailsBeforeCleanup ==
    /\ \A i \in 1..Len(trace) :
          trace[i][1] = "remove" =>
              /\ \E j \in 1..(i - 1) : trace[j] = Call("get_hash", "ok")
              /\ \E k \in 1..(i - 1) : trace[k][1] = "get_thumbnails"
    /\ (downloaded /\ ~scratch) => Called("remove")

\* a download whose scratch file was removed
C12_Witness == Done /\ downloaded /\ ~scratch /\ Call("remove", "ok") \in Calls

---------------------------------------------------------------------------
(* Claims about the storage's path resolution *)

\* C11: an upload(file, k) that follows a successful upload(file, k) under the
\* same prefix completes without error, whatever the store already holds.
C11_UploadAgain ==
    [][(last'.op = "upload" /\ last'.key \in uploaded /\ Readable(last'.file))
          => ~last'.raised]_vars

\* the same key was uploaded twice: the store holds two files of its name in
\* one folder, and the last operation was the second upload
C11_Witness ==
    /\ last.op = "upload" /\ ~last.raised /\ last.key \in Keys
    /\ \E i, j \in 1..Len(remote) :
          /\ i < j /\ j = Len(remote)
          /\ ~remote[i].folder /\ ~remote[j].folder
          /\ remote[i].name = FileName(last.key) /\ remote[j].name = remote[i].name
          /\ remote[i].parent = remote[j].parent

\* C13: after an upload that created a folder for a segment with no match,
\* the cache holds the id of that folder under (parent id, name, folder
\* filter), so that the next resolution of the triple needs no list call.
C13_CreatedFolderCached ==
    last.op = "upload" =>
        \A i \in 1..Len(last.calls) :
            LET c == last.calls[i]
                k == CacheKey(c.parent, c.name, TRUE)
            IN (c.call = "create" /\ c.folder) =>
                   /\ k \in DOMAIN api_cache
                   /\ \E e \in Entries : /\ e.id = api_cache[k] /\ e.folder
                                         /\ e.parent = c.parent /\ e.name = c.name

\* the operation resolved every triple on its path to an id
ResolvedAll(l) ==
    \/ l.op = "upload"
    \/ l.op = "get_cdn_url" /\ ~l.raised
    \/ l.op = "exists" /\ l.ret

\* the operation sent no list call
NoListCall(l) == \A i \in 1..Len(l.calls) : l.calls[i].call # "list"

\* C14: when an operation has resolved its triples to ids and the same
\* operation on the same key follows at once, the second resolves the same
\* triples without a list call: one list call per triple in total.
C14_SecondFromCache ==
    [][(last'.op = last.op /\ last'.key = last.key /\ ResolvedAll(last))
          => NoListCall(last')]_vars

\* the same, for the operations of the read path alone
C14_SecondReadFromCache ==
    [][(last'.op = last.op /\ last'.key = last.key /\ ResolvedAll(last)
            /\ last.op # "upload")
          => NoListCall(last')]_vars

\* the lookup of q finds nothing: no match in the store and no cache entry used
Missing(q) ==
    /\ ListFiles(remote, q.parent_id, q.name, q.use_mime_type) = <<>>
    /\ ~(q.use_cache /\ CacheKey(q.parent_id, q.name, q.use_mime_type) \in DOMAIN api_cache)

\* how many times the call c is among calls
Times(calls, c) == Cardinality({i \in 1..Len(calls) : calls[i] = c})

\* C15: a lookup that raises on a miss sends, for a name that is missing,
\* exactly `retries` list queries, sleeps sleep_seconds between two attempts
\* and not after the last, and then raises; get_cdn_url and exists, which pass
\* no retries, send the default number of queries for the missing segment.
C15_ExactAttempts ==
    /\ (last.op = "lookup" /\ last.q.raise_on_missing /\ Missing(last.q)) =>
          /\ last.raised
          /\ Len(last.calls) = last.q.retries
          /\ \A i \in 1..Len(last.calls) :
                last.calls[i] = ListCall(last.q.parent_id, last.q.name, last.q.use_mime_type)
          /\ last.slept = (last.q.retries - 1) * last.q.sleep_seconds
    /\ (last.op = "lookup" /\ last.raised) => (last.q.raise_on_missing /\ Missing(last.q))
    /\ ((last.op = "get_cdn_url" /\ last.raised) \/ (last.op = "exists" /\ ~last.ret)) =>
          /\ last.calls # <<>>
          /\ Last(last.calls).call = "list"
          /\ Times(last.calls, Last(last.calls)) = DefaultRetries
          /\ last.slept = (DefaultRetries - 1) * DefaultSleepSeconds

\* a lookup with several attempts missed, and slept between them
C15_Witness ==
    /\ last.op = "lookup" /\ last.raised
    /\ last.q.retries = MaxRetries /\ Len(last.calls) = MaxRetries
    /\ last.slept = (MaxRetries - 1) * DefaultSleepSeconds

\* the ids of the folders that the path parts leads to in the store rem,
\* starting in the folder parent
RECURSIVE PathIds(_, _, _)
PathIds(rem, parent, parts) ==
    IF parts = <<>> THEN {parent}
    ELSE UNION {PathIds(rem, rem[i].id, Tail(parts)) :
                   i \in {j \in 1..Len(rem) : /\ rem[j].folder
                                               /\ rem[j].parent = parent
                                               /\ rem[j].name = Head(parts)}}

\* the folder segments of a key under the prefix
FolderParts(fld, key) == Front(Split(PathJoin(fld, key), Sep))

\* the segments with no folder in rem: positions of parts whose path is not held
MissingSegments(rem, parts) ==
    {i \in 1..Len(parts) : PathIds(rem, RootFolderId, SubSeq(parts, 1, i)) = {}}

\* the create-folder calls among calls
FolderCreates(calls) == SelectSeq(calls, LAMBDA c : c.call = "create" /\ c.folder)

\* C16: an upload creates one folder for each folder segment of its key that
\* the store did not hold, in path order, and none for a segment that was
\* held; each is created under the folder of the segment before it (the root
\* for the first), and afterwards the store holds the whole folder path.
C16_CreatesExactlyMissing ==
    [][last'.op = "upload" =>
          LET parts == FolderParts(folder, last'.key)
              missing == MissingSegments(remote, parts)
              made == FolderCreates(last'.calls)
              first == Len(parts) - Len(made)
          IN /\ Len(made) = Cardinality(missing)
             /\ \A j \in 1..Len(made) :
                   /\ first + j \in missing
                   /\ made[j].name = parts[first + j]
                   /\ made[j].parent \in
                          PathIds(remote', RootFolderId, SubSeq(parts, 1, first + j - 1))
             /\ PathIds(remote', RootFolderId, parts) # {}
             /\ Cardinality({i \in 1..Len(remote') : remote'[i].folder})
                   = Cardinality({i \in 1..Len(remote) : remote[i].folder}) + Len(made)]_vars

\* an upload under a prefix whose folder the store held created the one
\* folder of its key that was missing, inside the folder of the prefix
C16_Witness ==
    /\ last.op = "upload" /\ last.key = <<"a", "/", "f">> /\ folder = <<"default">>
    /\ Len(FolderCreates(last.calls)) = 1
    /\ FolderCreates(last.calls)[1].name = <<"a">>
    /\ FolderCreates(last.calls)[1].parent \in PathIds(remote, RootFolderId, <<<<"default">>>>)

\* C17: a resolution that misses the cache and lists one match or several
\* takes the id of the last entry of the listing and caches it; no cache entry
\* changes afterwards, so every later resolution yields that id, and a URL
\* that get_cdn_url returns is built from a cached id.
C17_LastMatchWins ==
    [][/\ \A i \in 1..Len(last'.calls) :
            LET c == last'.calls[i]
                items == ListFiles(remote, c.parent, c.name, c.folder)
                k == CacheKey(c.parent, c.name, c.folder)
            IN (c.call = "list" /\ items # <<>>) =>
                   /\ k \in DOMAIN api_cache'
                   /\ api_cache'[k] = items[Len(items)].id
       /\ \A k \in DOMAIN api_cache :
            k \in DOMAIN api_cache' /\ api_cache'[k] = api_cache[k]
       /\ (last'.op = "get_cdn_url" /\ ~last'.raised) =>
            \E k \in DOMAIN api_cache' : last'.url = ViewerUrl(api_cache'[k])]_vars

\* the store holds the prefix folder twice, the second one was resolved, and
\* a later get_cdn_url went through it without a list call
C17_Witness ==
    /\ Len(ListFiles(remote, RootFolderId, <<"default">>, TRUE)) = 2
    /\ CacheKey(RootFolderId, <<"default">>, TRUE) \in DOMAIN api_cache
    /\ api_cache[CacheKey(RootFolderId, <<"default">>, TRUE)] = <<"2">>
    /\ last.op = "get_cdn_url" /\ ~last.raised /\ NoListCall(last)

\* C20: resolution starts at the root folder: no remote call of an operation
\* names an unset parent, and for a key with no folder segment under an empty
\* prefix the upload creates the file in the root folder and get_cdn_url and
\* exists look the file up in the root folder.
C20_ResolvesFromRoot ==
    /\ \A i \in 1..Len(last.calls) : last.calls[i].parent # PyStr(None)
    /\ (last.op \in {"upload", "get_cdn_url", "exists"}
          /\ FolderParts(folder, last.key) = <<>> /\ last.calls # <<>>) =>
            /\ Last(last.calls).parent = RootFolderId
            /\ Last(last.calls).name = FileName(last.key)

\* C21: exists and get_cdn_url send no create request, for a folder or for a
\* file, whether they find the key or not: every call they make is a list
\* query, and the store holds after them what it held before.
C21_ReadPathsCreateNothing ==
    [][last'.op \in {"exists", "get_cdn_url"} =>
          /\ remote' = remote
          /\ \A i \in 1..Len(last'.calls) : last'.calls[i].call = "list"]_vars

\* a get_cdn_url that missed a folder of its key, on a store that holds entries
C21_Witness ==
    /\ last.op = "get_cdn_url" /\ last.raised
    /\ last.calls # <<>> /\ Last(last.calls).folder
    /\ remote # <<>>

\* C22: a lookup that returns an id returns the id of an entry that the list
\* query for its own (parent id, name, folder filter) returns, whatever ids
\* and names hold: no two triples share a cache entry.
C22_HitIsOfItsTriple ==
    (last.op = "lookup" /\ last.id # None) =>
        \E i \in 1..Len(remote) :
            /\ remote[i].id = last.id
            /\ remote[i].parent = PyStr(last.q.parent_id)
            /\ remote[i].name = last.q.name
            /\ last.q.use_mime_type => remote[i].folder

\* the list calls among calls whose listing of the store rem is empty (a
\* miss), or is not (a hit): their cache keys
KeysListed(calls, rem, hit) ==
    {CacheKey(calls[i].parent, calls[i].name, calls[i].folder) :
        i \in {j \in 1..Len(calls) :
                  /\ calls[j].call = "list"
                  /\ hit = (ListFiles(rem, calls[j].parent, calls[j].name,
                                      calls[j].folder) # <<>>)}}

\* C23: a lookup whose listing is empty writes nothing to the cache: the
\* entries an operation adds are those of its lookups that found a match, and
\* no key of a miss is cached.  A miss is therefore never remembered: a
\* get_cdn_url raises only after a list query that the store answers with no
\* match at that time, so an entry created since an earlier miss is found.
C23_MissesNotCached ==
    [][last'.op \in {"upload", "exists", "get_cdn_url"} =>
          /\ KeysListed(last'.calls, remote, FALSE) \cap DOMAIN api_cache' = {}
          /\ (DOMAIN api_cache') \ (DOMAIN api_cache)
                \subseteq KeysListed(last'.calls, remote, TRUE)
          /\ (last'.op = "get_cdn_url" /\ last'.raised) =>
                /\ last'.calls # <<>>
                /\ Last(last'.calls).call = "list"
                /\ ListFiles(remote, Last(last'.calls).parent, Last(last'.calls).name,
                             Last(last'.calls).folder) = <<>>]_vars

\* the store holds a folder a that an upload created after its lookup had
\* missed, and a later exists or get_cdn_url has listed and found it
C23_Witness ==
    /\ last.op \in {"exists", "get_cdn_url"}
    /\ \E i \in 1..Len(last.calls), j \in 1..Len(remote) :
          /\ remote[j].folder /\ remote[j].name = <<"a">>
          /\ last.calls[i] = ListCall(remote[j].parent, <<"a">>, TRUE)
          /\ CacheKey(remote[j].parent, <<"a">>, TRUE) \in DOMAIN api_cache
          /\ api_cache[CacheKey(remote[j].parent, <<"a">>, TRUE)] = remote[j].id

\* C24: once get_cdn_url(k) has returned a URL, every later get_cdn_url(k)
\* under the same prefix returns that URL and does not raise, whatever was
\* uploaded in between.
C24_UrlIsStable ==
    [][(last'.op = "get_cdn_url" /\ served[last'.key] # <<>>) =>
          (~last'.raised /\ last'.url = served[last'.key])]_vars

\* get_cdn_url(k) has returned again the URL of the file it found first,
\* while the store holds a later file of that name in the same folder
C24_Witness ==
    /\ last.op = "get_cdn_url" /\ ~last.raised /\ NoListCall(last)
    /\ served[last.key] = last.url
    /\ \E i, j \in 1..Len(remote) :
          /\ i < j
          /\ ~remote[i].folder /\ ~remote[j].folder
          /\ remote[i].name = FileName(last.key) /\ remote[j].name = remote[i].name
          /\ remote[i].parent = remote[j].parent
          /\ last.url = ViewerUrl(remote[i].id)

---------------------------------------------------------------------------
(* Claims about several operations at once on one GDStorage *)

\* C18: under every interleaving of the threads' steps the cache only grows:
\* no step removes an entry or changes the id an entry holds.
C18_CacheAppendOnly ==
    [][\A k \in DOMAIN api_cache :
          k \in DOMAIN api_cache' /\ api_cache'[k] = api_cache[k]]_vars

\* the same for the steps that do not set the attribute: no entry's id changes
C18_NoEntryChanged ==
    [][(\A t \in Threads : cc.t[t].pc = "setattr" => cc'.t[t].pc = "setattr") =>
          \A k \in DOMAIN api_cache :
              k \in DOMAIN api_cache' /\ api_cache'[k] = api_cache[k]]_vars

\* two folders of one name in one folder of the store
Duplicates(i, j) ==
    /\ i < j
    /\ remote[i].folder /\ remote[j].folder
    /\ remote[i].parent = remote[j].parent /\ remote[i].name = remote[j].name

\* C19: two uploads that share a folder segment the store does not hold can
\* interleave so that both create it, and the store is left with two folders
\* of that name under one parent (C19_Witness is such a state).  Folders
\* double in this way only: the two were created by different threads, and
\* the thread that created the second listed before the first existed.
C19_DuplicatesFromOverlapOnly ==
    \A m, n \in cc.made :
        Duplicates(m.at, n.at) => (m.by # n.by /\ n.seen < m.at)

\* the store holds a folder twice, and both were created by uploads
C19_Witness ==
    \E m, n \in cc.made : Duplicates(m.at, n.at)

====
